---- MODULE Spec2Model ----
(***************************************************************************)
(* A model of the scim_v2 crate: the User resource model and its serde     *)
(* JSON codec (src/models/user.rs), and the validators and codec entry     *)
(* points of src/lib.rs.                                                   *)
(*                                                                         *)
(* Rust values are modelled as follows.                                    *)
(*   String        a TLA+ string                                           *)
(*   bool          a TLA+ boolean                                          *)
(*   Option<T>     None == <<>>, Some(x) == <<x>>                          *)
(*   Vec<T>        a sequence                                              *)
(*   struct        a record named by the Rust field names                  *)
(*   Result<T,E>   [ok |-> TRUE, v |-> x] or [ok |-> FALSE, err |-> e]     *)
(* A JSON text is modelled by the JSON value it denotes, a one-field       *)
(* record named by its kind (null, str, bool, num, arr, obj), an object a *)
(* function from its keys to JSON values; the order of the keys of an      *)
(* object and the white space of the text are not modelled.                *)
(* A text that is not JSON at all is the value JInvalid.                   *)
(***************************************************************************)
EXTENDS Naturals, Sequences, FiniteSets, TLC

----------------------------------------------------------------------------
(* Bounds of the model.                                                    *)

\* the longest list the caller builds for schemas or a list-valued attribute
MaxLen == 2
\* how many optional attributes the caller sets on User::default(), or leaves
\* out of a User that has them all
MaxSet == 1
\* how many calls are kept in the trace of the calls made
MaxCalls == 3

----------------------------------------------------------------------------
(* JSON values.                                                            *)

JNull == [null |-> TRUE]
JStr(s) == [str |-> s]
JBool(b) == [bool |-> b]
JNum(n) == [num |-> n]
JArr(a) == [arr |-> a]
JObj(o) == [obj |-> o]
JInvalid == [invalid |-> TRUE]

IsNull(j) == DOMAIN j = {"null"}
IsStr(j) == DOMAIN j = {"str"}
IsBool(j) == DOMAIN j = {"bool"}
IsNum(j) == DOMAIN j = {"num"}
IsArr(j) == DOMAIN j = {"arr"}
IsObj(j) == DOMAIN j = {"obj"}

\* the empty JSON object's key/value function
NoKeys == <<>>

Keys(j) == IF IsObj(j) THEN DOMAIN j.obj ELSE {}

----------------------------------------------------------------------------
(* Option and Result.                                                      *)

None == <<>>
Some(x) == <<x>>
IsNone(o) == Len(o) = 0
IsSome(o) == Len(o) = 1

Ok(x) == [ok |-> TRUE, v |-> x]
Err(e) == [ok |-> FALSE, err |-> e]

\* the variants of SCIMError; the text carried by the two serde variants is
\* not modelled
MissingRequiredField(name) == <<"MissingRequiredField", name>>
SerializationError == <<"SerializationError">>
DeserializationError == <<"DeserializationError">>

----------------------------------------------------------------------------
(* Type descriptors: what #[derive(Serialize, Deserialize)] knows of a     *)
(* field. A struct is described by the sequence of its fields in           *)
(* declaration order, each with its JSON key (the serde rename, or the     *)
(* Rust name when there is none), its Rust name and its type.              *)

TStr == [k |-> "str"]
TBool == [k |-> "bool"]
TInt == [k |-> "int"]
TOpt(ty) == [k |-> "opt", of |-> ty]
TVec(ty) == [k |-> "vec", of |-> ty]
TStruct(fields) == [k |-> "struct", fields |-> fields]
Field(key, name, ty) == [key |-> key, name |-> name, ty |-> ty]

FieldKeys(fields) == {fields[i].key : i \in 1..Len(fields)}
FieldNames(fields) == {fields[i].name : i \in 1..Len(fields)}
FieldOfKey(fields, key) == fields[CHOOSE i \in 1..Len(fields) : fields[i].key = key]
FieldOfName(fields, name) == fields[CHOOSE i \in 1..Len(fields) : fields[i].name = name]

----------------------------------------------------------------------------
(* The structs of src/models/user.rs.                                      *)

MultiValuedFields ==
    << Field("value", "value", TOpt(TStr)),
       Field("display", "display", TOpt(TStr)),
       Field("type", "type_", TOpt(TStr)),
       Field("primary", "primary", TOpt(TBool)) >>

NameFields ==
    << Field("formatted", "formatted", TOpt(TStr)),
       Field("familyName", "family_name", TOpt(TStr)),
       Field("givenName", "given_name", TOpt(TStr)),
       Field("middleName", "middle_name", TOpt(TStr)),
       Field("honorificPrefix", "honorific_prefix", TOpt(TStr)),
       Field("honorificSuffix", "honorific_suffix", TOpt(TStr)) >>

EmailFields == MultiValuedFields

AddressFields ==
    << Field("formatted", "formatted", TOpt(TStr)),
       Field("streetAddress", "street_address", TOpt(TStr)),
       Field("locality", "locality", TOpt(TStr)),
       Field("region", "region", TOpt(TStr)),
       Field("postalCode", "postal_code", TOpt(TStr)),
       Field("country", "country", TOpt(TStr)),
       Field("type", "type_", TOpt(TStr)) >>

PhoneNumberFields == MultiValuedFields
ImFields == MultiValuedFields
PhotoFields == MultiValuedFields

\* Group::type_ carries no serde rename: its JSON key is the Rust name
GroupFields ==
    << Field("value", "value", TOpt(TStr)),
       Field("$ref", "ref_", TOpt(TStr)),
       Field("display", "display", TOpt(TStr)),
       Field("type_", "type_", TOpt(TStr)) >>

EntitlementFields == MultiValuedFields
RoleFields == MultiValuedFields
X509CertificateFields == MultiValuedFields

\* scim_schema::Meta: five Strings under camelCase keys
MetaFields ==
    << Field("resourceType", "resource_type", TStr),
       Field("created", "created", TStr),
       Field("lastModified", "last_modified", TStr),
       Field("version", "version", TStr),
       Field("location", "location", TStr) >>

\* enterprise_user::Manager
ManagerFields ==
    << Field("value", "value", TOpt(TStr)),
       Field("$ref", "ref_", TOpt(TStr)),
       Field("displayName", "display_name", TOpt(TStr)) >>

\* enterprise_user::EnterpriseUser
EnterpriseUserFields ==
    << Field("employeeNumber", "employee_number", TOpt(TStr)),
       Field("costCenter", "cost_center", TOpt(TStr)),
       Field("organization", "organization", TOpt(TStr)),
       Field("division", "division", TOpt(TStr)),
       Field("department", "department", TOpt(TStr)),
       Field("manager", "manager", TOpt(TStruct(ManagerFields))) >>

\* the extension bound by the Rust field's name in camelCase, not by the URN
NestedExtensionKey == "enterpriseUser"

EnterpriseUrn == "urn:ietf:params:scim:schemas:extension:enterprise:2.0:User"
CoreUserUrn == "urn:ietf:params:scim:schemas:core:2.0:User"

UserFields ==
    << Field("schemas", "schemas", TVec(TStr)),
       Field("id", "id", TOpt(TStr)),
       Field("userName", "user_name", TStr),
       Field("name", "name", TOpt(TStruct(NameFields))),
       Field("displayName", "display_name", TOpt(TStr)),
       Field("nickName", "nick_name", TOpt(TStr)),
       Field("profileUrl", "profile_url", TOpt(TStr)),
       Field("title", "title", TOpt(TStr)),
       Field("userType", "user_type", TOpt(TStr)),
       Field("preferredLanguage", "preferred_language", TOpt(TStr)),
       Field("locale", "locale", TOpt(TStr)),
       Field("timezone", "timezone", TOpt(TStr)),
       Field("active", "active", TOpt(TBool)),
       Field("password", "password", TOpt(TStr)),
       Field("emails", "emails", TOpt(TVec(TStruct(EmailFields)))),
       Field("addresses", "addresses", TOpt(TVec(TStruct(AddressFields)))),
       Field("phoneNumbers", "phone_numbers", TOpt(TVec(TStruct(PhoneNumberFields)))),
       Field("ims", "ims", TOpt(TVec(TStruct(ImFields)))),
       Field("photos", "photos", TOpt(TVec(TStruct(PhotoFields)))),
       Field("groups", "groups", TOpt(TVec(TStruct(GroupFields)))),
       Field("entitlements", "entitlements", TOpt(TVec(TStruct(EntitlementFields)))),
       Field("roles", "roles", TOpt(TVec(TStruct(RoleFields)))),
       Field("x509Certificates", "x509_certificates", TOpt(TVec(TStruct(X509CertificateFields)))),
       Field("meta", "meta", TOpt(TStruct(MetaFields))),
       Field(EnterpriseUrn, "enterprise_user", TOpt(TStruct(EnterpriseUserFields))) >>

TUser == TStruct(UserFields)

----------------------------------------------------------------------------
(* The structs of the other resources: models/group.rs,                    *)
(* models/resource_types.rs and models/service_provider_config.rs.         *)

\* group::Member, a reference to a member of the group
MemberFields ==
    << Field("value", "value", TOpt(TStr)),
       Field("$ref", "ref_", TOpt(TStr)),
       Field("display", "display", TOpt(TStr)) >>

\* group::Group
GroupResourceFields ==
    << Field("schemas", "schemas", TVec(TStr)),
       Field("id", "id", TStr),
       Field("displayName", "display_name", TStr),
       Field("members", "members", TOpt(TVec(TStruct(MemberFields)))),
       Field("meta", "meta", TOpt(TStruct(MetaFields))) >>

\* resource_types::SchemaExtension
SchemaExtensionFields ==
    << Field("schema", "schema", TStr),
       Field("required", "required", TBool) >>

\* resource_types::ResourceType
ResourceTypeFields ==
    << Field("id", "id", TOpt(TStr)),
       Field("name", "name", TStr),
       Field("description", "description", TOpt(TStr)),
       Field("endpoint", "endpoint", TStr),
       Field("schema", "schema", TStr),
       Field("schemaExtensions", "schema_extensions",
             TOpt(TVec(TStruct(SchemaExtensionFields)))),
       Field("meta", "meta", TOpt(TStruct(MetaFields))) >>

\* the capability sub-records of service_provider_config::ServiceProviderConfig
SupportedFields == << Field("supported", "supported", TBool) >>
BulkFields ==
    << Field("supported", "supported", TBool),
       Field("maxOperations", "max_operations", TInt),
       Field("maxPayloadSize", "max_payload_size", TInt) >>
FilterFields ==
    << Field("supported", "supported", TBool),
       Field("maxResults", "max_results", TInt) >>

\* service_provider_config::AuthenticationScheme
AuthenticationSchemeFields ==
    << Field("type", "type_", TStr),
       Field("name", "name", TStr),
       Field("description", "description", TStr),
       Field("specUri", "spec_uri", TOpt(TStr)),
       Field("documentationUri", "documentation_uri", TOpt(TStr)),
       Field("primary", "primary", TOpt(TBool)) >>

\* service_provider_config::ServiceProviderConfig
ServiceProviderConfigFields ==
    << Field("documentationUri", "documentation_uri", TOpt(TStr)),
       Field("patch", "patch", TStruct(SupportedFields)),
       Field("bulk", "bulk", TStruct(BulkFields)),
       Field("filter", "filter", TStruct(FilterFields)),
       Field("changePassword", "change_password", TStruct(SupportedFields)),
       Field("sort", "sort", TStruct(SupportedFields)),
       Field("etag", "etag", TStruct(SupportedFields)),
       Field("authenticationSchemes", "authentication_schemes",
             TVec(TStruct(AuthenticationSchemeFields))),
       Field("meta", "meta", TOpt(TStruct(MetaFields))) >>

\* the attributes of User that are Option<_>, by Rust name and by JSON key
OptionalNames == {UserFields[i].name : i \in {n \in 1..Len(UserFields) : UserFields[n].ty.k = "opt"}}
OptionalKeys == {UserFields[i].key : i \in {n \in 1..Len(UserFields) : UserFields[n].ty.k = "opt"}}

----------------------------------------------------------------------------
(* serde_json::to_string on a derived Serialize.                           *)

\* Option::None is written by serialize_none, which serde_json writes as null
SerializeNone == JNull

\* a Vec is written element by element, in order
SerializeSeq(elems) == JArr(elems)

RECURSIVE Serialize(_, _)
\* a struct is written as an object holding every field under its JSON key
SerializeStruct(fields, v) ==
    JObj([key \in FieldKeys(fields) |->
            LET f == FieldOfKey(fields, key) IN Serialize(f.ty, v[f.name])])

Serialize(ty, v) ==
    CASE ty.k = "str" -> JStr(v)
      [] ty.k = "bool" -> JBool(v)
      [] ty.k = "int" -> JNum(v)
      [] ty.k = "opt" -> IF IsNone(v) THEN SerializeNone ELSE Serialize(ty.of, v[1])
      [] ty.k = "vec" -> SerializeSeq([i \in 1..Len(v) |-> Serialize(ty.of, v[i])])
      [] ty.k = "struct" -> SerializeStruct(ty.fields, v)

----------------------------------------------------------------------------
(* serde_json::from_str on a derived Deserialize.                          *)

\* a missing field under #[serde(default)]: the default value of its type
MissingFieldDefault(ty) ==
    CASE ty.k = "opt" -> Ok(None)
      [] ty.k = "vec" -> Ok(<<>>)
      [] ty.k = "str" -> Ok("")
      [] OTHER -> Err(DeserializationError)

\* a field whose key is not in the object: None for an Option, else an error
MissingField(ty) == IF ty.k = "opt" THEN Ok(None) ELSE Err(DeserializationError)

\* Option<T> reads null as None
DeserializeNull == Ok(None)

RECURSIVE Deserialize(_, _)
\* visit_map under #[serde(deny_unknown_fields)]
DeserializeStructMapDenyUnknown(fields, obj) ==
    LET r == [i \in 1..Len(fields) |->
                IF fields[i].key \in DOMAIN obj
                THEN Deserialize(fields[i].ty, obj[fields[i].key])
                ELSE MissingField(fields[i].ty)]
    IN IF DOMAIN obj \subseteq FieldKeys(fields) /\ \A i \in 1..Len(fields) : r[i].ok
       THEN Ok([name \in FieldNames(fields) |->
                  r[CHOOSE i \in 1..Len(fields) : fields[i].name = name].v])
       ELSE Err(DeserializationError)

\* visit_map: known keys are read into their fields, other keys are ignored
DeserializeStructMap(fields, obj) ==
    LET r == [i \in 1..Len(fields) |->
                IF fields[i].key \in DOMAIN obj
                THEN Deserialize(fields[i].ty, obj[fields[i].key])
                ELSE MissingField(fields[i].ty)]
    IN IF \A i \in 1..Len(fields) : r[i].ok
       THEN Ok([name \in FieldNames(fields) |->
                  r[CHOOSE i \in 1..Len(fields) : fields[i].name = name].v])
       ELSE Err(DeserializationError)

\* visit_seq: a JSON array is read as the fields in declaration order and
\* must hold exactly one element per field
DeserializeStructSeq(fields, arr) ==
    IF Len(arr) # Len(fields) THEN Err(DeserializationError)
    ELSE LET r == [i \in 1..Len(fields) |-> Deserialize(fields[i].ty, arr[i])]
         IN IF \A i \in 1..Len(fields) : r[i].ok
            THEN Ok([name \in FieldNames(fields) |->
                       r[CHOOSE i \in 1..Len(fields) : fields[i].name = name].v])
            ELSE Err(DeserializationError)

\* Vec<T> refusing an array without elements
DeserializeSeqNonEmpty(ty, arr) ==
    LET r == [i \in 1..Len(arr) |-> Deserialize(ty, arr[i])]
    IN IF Len(arr) > 0 /\ \A i \in 1..Len(arr) : r[i].ok
       THEN Ok([i \in 1..Len(arr) |-> r[i].v])
       ELSE Err(DeserializationError)

DeserializeSeq(ty, arr) ==
    LET r == [i \in 1..Len(arr) |-> Deserialize(ty, arr[i])]
    IN IF \A i \in 1..Len(arr) : r[i].ok
       THEN Ok([i \in 1..Len(arr) |-> r[i].v])
       ELSE Err(DeserializationError)

\* Option<T> reading a value that is no T as None
DeserializeOptionLenient(ty, j) ==
    IF IsNull(j) THEN DeserializeNull
    ELSE LET r == Deserialize(ty, j) IN IF r.ok THEN Ok(Some(r.v)) ELSE Ok(None)

DeserializeOption(ty, j) ==
    IF IsNull(j) THEN DeserializeNull
    ELSE LET r == Deserialize(ty, j) IN IF r.ok THEN Ok(Some(r.v)) ELSE r

Deserialize(ty, j) ==
    CASE ty.k = "str" -> IF IsStr(j) THEN Ok(j.str) ELSE Err(DeserializationError)
      [] ty.k = "bool" -> IF IsBool(j) THEN Ok(j.bool) ELSE Err(DeserializationError)
      [] ty.k = "int" -> IF IsNum(j) THEN Ok(j.num) ELSE Err(DeserializationError)
      [] ty.k = "opt" -> DeserializeOption(ty.of, j)
      [] ty.k = "vec" -> IF IsArr(j) THEN DeserializeSeq(ty.of, j.arr)
                          ELSE Err(DeserializationError)
      [] ty.k = "struct" -> IF IsObj(j) THEN DeserializeStructMap(ty.fields, j.obj)
                             ELSE IF IsArr(j) THEN DeserializeStructSeq(ty.fields, j.arr)
                             ELSE Err(DeserializationError)

----------------------------------------------------------------------------
(* The entry points of src/lib.rs for User.                                *)

\* validate_user with its two checks in the other order
validate_user_name_first(user) ==
    IF user.user_name = "" THEN Err(MissingRequiredField("user_name"))
    ELSE IF Len(user.schemas) = 0 THEN Err(MissingRequiredField("schemas"))
    ELSE Ok("unit")

\* validate_user asking for the core User URN among the schemas as well
validate_user_core_urn(user) ==
    IF \A i \in 1..Len(user.schemas) : user.schemas[i] # CoreUserUrn
    THEN Err(MissingRequiredField("schemas"))
    ELSE IF user.user_name = "" THEN Err(MissingRequiredField("user_name"))
    ELSE Ok("unit")

validate_user(user) ==
    IF Len(user.schemas) = 0 THEN Err(MissingRequiredField("schemas"))
    ELSE IF user.user_name = "" THEN Err(MissingRequiredField("user_name"))
    ELSE Ok("unit")

\* user_to_json with the password left out of the text
user_to_json_skip_password(user) ==
    Ok(Serialize(TUser, [user EXCEPT !.password = None]))

\* user_to_json refusing to write a User that validate_user rejects
user_to_json_validating(user) ==
    IF validate_user(user).ok THEN Ok(Serialize(TUser, user))
    ELSE Err(SerializationError)

user_to_json(user) == Ok(Serialize(TUser, user))

\* json_to_user validating what it read, and returning the validator's error
json_to_user_validating(json) ==
    LET r == IF json = JInvalid THEN Err(DeserializationError) ELSE Deserialize(TUser, json)
    IN IF r.ok /\ ~validate_user(r.v).ok THEN validate_user(r.v) ELSE r

json_to_user(json) ==
    IF json = JInvalid THEN Err(DeserializationError) ELSE Deserialize(TUser, json)

----------------------------------------------------------------------------
(* The other validators of src/lib.rs. Their structs are read through the  *)
(* fields the validators test.                                             *)

\* validate_group without its last check
validate_group_no_display_name(group) ==
    IF Len(group.schemas) = 0 THEN Err(MissingRequiredField("schemas"))
    ELSE IF group.id = "" THEN Err(MissingRequiredField("id"))
    ELSE Ok("unit")

validate_group(group) ==
    IF Len(group.schemas) = 0 THEN Err(MissingRequiredField("schemas"))
    ELSE IF group.id = "" THEN Err(MissingRequiredField("id"))
    ELSE IF group.display_name = "" THEN Err(MissingRequiredField("display_name"))
    ELSE Ok("unit")

\* validate_resource_type testing endpoint before name
validate_resource_type_endpoint_first(resource_type) ==
    IF resource_type.endpoint = "" THEN Err(MissingRequiredField("endpoint"))
    ELSE IF resource_type.name = "" THEN Err(MissingRequiredField("name"))
    ELSE IF resource_type.schema = "" THEN Err(MissingRequiredField("schema"))
    ELSE Ok("unit")

validate_resource_type(resource_type) ==
    IF resource_type.name = "" THEN Err(MissingRequiredField("name"))
    ELSE IF resource_type.endpoint = "" THEN Err(MissingRequiredField("endpoint"))
    ELSE IF resource_type.schema = "" THEN Err(MissingRequiredField("schema"))
    ELSE Ok("unit")

\* validate_service_provider_config testing etag before filter
validate_service_provider_config_etag_early(config) ==
    IF config.patch.supported = FALSE THEN Err(MissingRequiredField("patch"))
    ELSE IF config.bulk.supported = FALSE THEN Err(MissingRequiredField("bulk"))
    ELSE IF config.etag.supported = FALSE THEN Err(MissingRequiredField("etag"))
    ELSE IF config.filter.supported = FALSE THEN Err(MissingRequiredField("filter"))
    ELSE IF config.change_password.supported = FALSE
         THEN Err(MissingRequiredField("change_password"))
    ELSE IF config.sort.supported = FALSE THEN Err(MissingRequiredField("sort"))
    ELSE Ok("unit")

validate_service_provider_config(config) ==
    IF config.patch.supported = FALSE THEN Err(MissingRequiredField("patch"))
    ELSE IF config.bulk.supported = FALSE THEN Err(MissingRequiredField("bulk"))
    ELSE IF config.filter.supported = FALSE THEN Err(MissingRequiredField("filter"))
    ELSE IF config.change_password.supported = FALSE
         THEN Err(MissingRequiredField("change_password"))
    ELSE IF config.sort.supported = FALSE THEN Err(MissingRequiredField("sort"))
    ELSE IF config.etag.supported = FALSE THEN Err(MissingRequiredField("etag"))
    ELSE Ok("unit")

\* validate_enterprise_user taking an empty employee_number for a missing one
validate_enterprise_user_non_empty(enterprise_user) ==
    IF IsNone(enterprise_user.employee_number) \/ enterprise_user.employee_number = Some("")
    THEN Err(MissingRequiredField("employee_number"))
    ELSE IF IsNone(enterprise_user.cost_center)
         THEN Err(MissingRequiredField("cost_center"))
    ELSE IF IsNone(enterprise_user.organization)
         THEN Err(MissingRequiredField("organization"))
    ELSE IF IsNone(enterprise_user.division)
         THEN Err(MissingRequiredField("division"))
    ELSE IF IsNone(enterprise_user.department)
         THEN Err(MissingRequiredField("department"))
    ELSE IF IsNone(enterprise_user.manager)
         THEN Err(MissingRequiredField("manager"))
    ELSE Ok("unit")

validate_enterprise_user(enterprise_user) ==
    IF IsNone(enterprise_user.employee_number)
    THEN Err(MissingRequiredField("employee_number"))
    ELSE IF IsNone(enterprise_user.cost_center)
         THEN Err(MissingRequiredField("cost_center"))
    ELSE IF IsNone(enterprise_user.organization)
         THEN Err(MissingRequiredField("organization"))
    ELSE IF IsNone(enterprise_user.division)
         THEN Err(MissingRequiredField("division"))
    ELSE IF IsNone(enterprise_user.department)
         THEN Err(MissingRequiredField("department"))
    ELSE IF IsNone(enterprise_user.manager)
         THEN Err(MissingRequiredField("manager"))
    ELSE Ok("unit")

----------------------------------------------------------------------------
(* The codec entry points of src/lib.rs for the other resources.           *)

group_to_json(group) == Ok(Serialize(TStruct(GroupResourceFields), group))

json_to_group(json) ==
    IF json = JInvalid THEN Err(DeserializationError)
    ELSE Deserialize(TStruct(GroupResourceFields), json)

resource_type_to_json(resource_type) ==
    Ok(Serialize(TStruct(ResourceTypeFields), resource_type))

json_to_resource_type(json) ==
    IF json = JInvalid THEN Err(DeserializationError)
    ELSE Deserialize(TStruct(ResourceTypeFields), json)

service_provider_config_to_json(config) ==
    Ok(Serialize(TStruct(ServiceProviderConfigFields), config))

json_to_service_provider_config(json) ==
    IF json = JInvalid THEN Err(DeserializationError)
    ELSE Deserialize(TStruct(ServiceProviderConfigFields), json)

enterprise_user_to_json(enterprise_user) ==
    Ok(Serialize(TStruct(EnterpriseUserFields), enterprise_user))

json_to_enterprise_user(json) ==
    IF json = JInvalid THEN Err(DeserializationError)
    ELSE Deserialize(TStruct(EnterpriseUserFields), json)

----------------------------------------------------------------------------
(* The values a caller builds.                                             *)

RECURSIVE SeqsUpTo(_, _)
\* the sequences over S of length at most n
SeqsUpTo(S, n) ==
    IF n = 0 THEN {<<>>}
    ELSE LET shorter == SeqsUpTo(S, n - 1)
         IN shorter \cup {Append(q, x) : q \in shorter, x \in S}

\* the User that #[derive(Default)] would give: no schema, no userName
DerivedDefaultUser ==
    [ schemas |-> <<>>,
      user_name |-> "",
      id |-> None, name |-> None, display_name |-> None, nick_name |-> None,
      profile_url |-> None, title |-> None, user_type |-> None,
      preferred_language |-> None, locale |-> None, timezone |-> None,
      active |-> None, password |-> None, emails |-> None, addresses |-> None,
      phone_numbers |-> None, ims |-> None, photos |-> None, groups |-> None,
      entitlements |-> None, roles |-> None, x509_certificates |-> None,
      meta |-> None, enterprise_user |-> None ]

\* User::default()
DefaultUser ==
    [ schemas |-> <<CoreUserUrn>>,
      user_name |-> "bjensen@example.com",
      id |-> None, name |-> None, display_name |-> None, nick_name |-> None,
      profile_url |-> None, title |-> None, user_type |-> None,
      preferred_language |-> None, locale |-> None, timezone |-> None,
      active |-> None, password |-> None, emails |-> None, addresses |-> None,
      phone_numbers |-> None, ims |-> None, photos |-> None, groups |-> None,
      entitlements |-> None, roles |-> None, x509_certificates |-> None,
      meta |-> None, enterprise_user |-> None ]

EmptyName ==
    [ formatted |-> None, family_name |-> None, given_name |-> None,
      middle_name |-> None, honorific_prefix |-> None, honorific_suffix |-> None ]
FullName ==
    [ formatted |-> Some("Ms. Barbara J Jensen, III"), family_name |-> Some("Jensen"),
      given_name |-> Some("Barbara"), middle_name |-> Some("Jane"),
      honorific_prefix |-> Some("Ms."), honorific_suffix |-> Some("III") ]

WorkEntry ==
    [ value |-> Some("bjensen@example.com"), display |-> None,
      type_ |-> Some("work"), primary |-> Some(TRUE) ]
HomeEntry ==
    [ value |-> Some("babs@jensen.org"), display |-> Some(""),
      type_ |-> Some("home"), primary |-> None ]

WorkAddress ==
    [ formatted |-> Some("100 Universal City Plaza"),
      street_address |-> Some("100 Universal City Plaza"),
      locality |-> Some("Hollywood"), region |-> Some("CA"),
      postal_code |-> Some("91608"), country |-> Some("USA"), type_ |-> Some("work") ]
HomeAddress ==
    [ formatted |-> None, street_address |-> Some("456 Hollywood Blvd"),
      locality |-> None, region |-> None, postal_code |-> None,
      country |-> None, type_ |-> Some("home") ]

\* an entry whose value is no address
HandleEntry ==
    [ value |-> Some("bjensen"), display |-> None,
      type_ |-> Some("other"), primary |-> Some(FALSE) ]

TourGuides ==
    [ value |-> Some("e9e30dba"), ref_ |-> Some("https://example.com/v2/Groups/e9e30dba"),
      display |-> Some("Tour Guides"), type_ |-> None ]
Employees ==
    [ value |-> Some("fc348aa8"), ref_ |-> None,
      display |-> Some("Employees"), type_ |-> Some("direct") ]

UserMeta ==
    [ resource_type |-> "User", created |-> "2010-01-23T04:56:22Z",
      last_modified |-> "2011-05-13T04:42:34Z", version |-> "W/3694e05e9dff590",
      location |-> "https://example.com/v2/Users/2819c223" ]

EmptyManager == [ value |-> None, ref_ |-> None, display_name |-> None ]
JohnSmith ==
    [ value |-> Some("26118915"), ref_ |-> Some("../Users/26118915"),
      display_name |-> Some("John Smith") ]

EmptyEnterpriseUser ==
    [ employee_number |-> None, cost_center |-> None, organization |-> None,
      division |-> None, department |-> None, manager |-> None ]
FullEnterpriseUser ==
    [ employee_number |-> Some("701984"), cost_center |-> Some("4130"),
      organization |-> Some("Universal Studios"), division |-> Some("Theme Park"),
      department |-> Some("Tour Operations"), manager |-> Some(JohnSmith) ]

\* every attribute present, the strings empty and the manager with no
\* attribute set
BlankEnterpriseUser ==
    [ employee_number |-> Some(""), cost_center |-> Some(""),
      organization |-> Some(""), division |-> Some(""),
      department |-> Some(""), manager |-> Some(EmptyManager) ]

\* a User with every attribute present
FullUser ==
    [ schemas |-> <<CoreUserUrn, EnterpriseUrn>>,
      user_name |-> "bjensen@example.com",
      id |-> Some("2819c223"), name |-> Some(FullName),
      display_name |-> Some("Babs Jensen"), nick_name |-> Some("Babs"),
      profile_url |-> Some("https://login.example.com/bjensen"),
      title |-> Some("Tour Guide"), user_type |-> Some("Employee"),
      preferred_language |-> Some("en-US"), locale |-> Some("en-US"),
      timezone |-> Some("America/Los_Angeles"), active |-> Some(TRUE),
      password |-> Some("t1meMa$heen"),
      emails |-> Some(<<WorkEntry, HomeEntry>>),
      addresses |-> Some(<<WorkAddress, HomeAddress>>),
      phone_numbers |-> Some(<<WorkEntry, HomeEntry>>),
      ims |-> Some(<<HomeEntry>>),
      photos |-> Some(<<HomeEntry, WorkEntry>>),
      groups |-> Some(<<TourGuides, Employees>>),
      entitlements |-> Some(<<>>),
      roles |-> Some(<<WorkEntry>>),
      x509_certificates |-> Some(<<WorkEntry>>),
      meta |-> Some(UserMeta),
      enterprise_user |-> Some(FullEnterpriseUser) ]

Templates == {DefaultUser, FullUser}

Lists(S) == {Some(q) : q \in SeqsUpTo(S, MaxLen)}

\* the values drawn for the optional attribute `name` of User when it is set
Values(name) ==
    CASE name = "active" -> {Some(TRUE), Some(FALSE)}
      [] name = "name" -> {Some(EmptyName), Some(FullName)}
      [] name = "addresses" -> Lists({HomeAddress})
      [] name = "groups" -> Lists({TourGuides, Employees})
      [] name = "emails" -> Lists({WorkEntry, HomeEntry, HandleEntry})
      [] name \in {"phone_numbers", "ims", "photos", "entitlements", "roles",
                   "x509_certificates"} -> Lists({HomeEntry})
      [] name = "meta" -> {Some(UserMeta)}
      [] name = "enterprise_user" ->
            {Some(EmptyEnterpriseUser), Some(FullEnterpriseUser),
             Some([FullEnterpriseUser EXCEPT !.manager = Some(EmptyManager)])}
      [] name = "id" -> {Some(""), Some("2819c223")}
      [] OTHER -> {Some("")}

RECURSIVE Overridden(_)
\* User::default() with at most n optional attributes set by the caller
Overridden(n) ==
    IF n = 0 THEN {DefaultUser}
    ELSE LET fewer == Overridden(n - 1)
         IN fewer \cup UNION {{[u EXCEPT ![name] = x] : x \in Values(name), u \in fewer} :
                               name \in OptionalNames}

RECURSIVE Cleared(_)
\* the User with every attribute present, less at most n optional attributes
Cleared(n) ==
    IF n = 0 THEN {FullUser}
    ELSE LET fewer == Cleared(n - 1)
         IN fewer \cup {[u EXCEPT ![name] = None] : name \in OptionalNames, u \in fewer}

\* the template Users with the two required attributes set by the caller
RequiredSet ==
    {[u EXCEPT !.schemas = q, !.user_name = n] :
        u \in Templates,
        q \in SeqsUpTo({CoreUserUrn, EnterpriseUrn, ""}, MaxLen),
        n \in {"", "bjensen@example.com"}}

UserInputs == Overridden(MaxSet) \cup Cleared(MaxSet) \cup RequiredSet

GroupUrn == "urn:ietf:params:scim:schemas:core:2.0:Group"

BabsJensen ==
    [ value |-> Some("2819c223"), ref_ |-> Some("https://example.com/v2/Users/2819c223"),
      display |-> Some("Babs Jensen") ]

GroupInputs ==
    [ schemas : SeqsUpTo({GroupUrn}, MaxLen),
      id : {"", "e9e30dba-f08f-4109-8486-d5c6a331660a"},
      display_name : {"", "Tour Guides"},
      members : {None, Some(<<>>), Some(<<BabsJensen>>)},
      meta : {None} ]

ResourceTypeInputs ==
    [ id : {None},
      name : {"", "User"}, endpoint : {"", "/Users"}, schema : {"", CoreUserUrn},
      description : {None, Some("User Account")},
      schema_extensions : {None, Some(<<[schema |-> EnterpriseUrn, required |-> TRUE]>>)},
      meta : {None} ]

Capability == [ supported : BOOLEAN ]

OAuthBearer ==
    [ type_ |-> "oauthbearertoken", name |-> "OAuth Bearer Token",
      description |-> "Authentication scheme using the OAuth Bearer Token Standard",
      spec_uri |-> Some("http://www.rfc-editor.org/info/rfc6750"),
      documentation_uri |-> None, primary |-> Some(TRUE) ]

ServiceProviderConfigInputs ==
    [ documentation_uri : {None},
      patch : Capability,
      bulk : [ supported : BOOLEAN, max_operations : {1000}, max_payload_size : {1048576} ],
      filter : [ supported : BOOLEAN, max_results : {200} ],
      change_password : Capability, sort : Capability, etag : Capability,
      authentication_schemes : {<<OAuthBearer>>},
      meta : {None} ]

EnterpriseUserInputs ==
    [ employee_number : {None, Some(""), Some("701984")},
      cost_center : {None, Some("4130")},
      organization : {None, Some(""), Some("Universal Studios")},
      division : {None, Some("Theme Park")},
      department : {None, Some("Tour Operations")},
      manager : {None, Some(EmptyManager), Some(JohnSmith)} ]
    \cup {BlankEnterpriseUser}

----------------------------------------------------------------------------
(* The JSON documents a caller hands to json_to_user: the documents of the *)
(* tests of src/models/user.rs (long strings shortened), and each of them  *)
(* with one change applied: some keys set, or one key removed.             *)

MetaDoc ==
    JObj("resourceType" :> JStr("User") @@ "created" :> JStr("2010-01-23T04:56:22Z")
         @@ "lastModified" :> JStr("2011-05-13T04:42:34Z")
         @@ "version" :> JStr("W/3694e05e9dff590")
         @@ "location" :> JStr("https://example.com/v2/Users/2819c223"))

\* user_deserialization_with_minimum_fields
MinimumFieldsDoc ==
    JObj("schemas" :> JArr(<<JStr(CoreUserUrn)>>) @@ "id" :> JStr("2819c223")
         @@ "userName" :> JStr("bjensen@example.com") @@ "meta" :> MetaDoc)

\* user_deserialization_without_enterprise_user_extension
WithoutExtensionDoc ==
    JObj("schemas" :> JArr(<<JStr(CoreUserUrn)>>) @@ "id" :> JStr("2819c223")
         @@ "userName" :> JStr("bjensen@example.com"))

TypedValue(value, type) == JObj("value" :> JStr(value) @@ "type" :> JStr(type))

GroupRef(value, display) ==
    JObj("value" :> JStr(value) @@ "$ref" :> JStr("https://example.com/v2/Groups/e9e30dba")
         @@ "display" :> JStr(display))

AddressDoc(type, street) ==
    JObj("type" :> JStr(type) @@ "streetAddress" :> JStr(street)
         @@ "locality" :> JStr("Hollywood") @@ "region" :> JStr("CA")
         @@ "postalCode" :> JStr("91608") @@ "country" :> JStr("USA")
         @@ "formatted" :> JStr(street))

\* user_deserialization_with_all_fields
AllFieldsDoc ==
    JObj("schemas" :> JArr(<<JStr(CoreUserUrn)>>)
         @@ "id" :> JStr("2819c223")
         @@ "externalId" :> JStr("701984")
         @@ "userName" :> JStr("bjensen@example.com")
         @@ "name" :> JObj("formatted" :> JStr("Ms. Barbara J Jensen, III")
                           @@ "familyName" :> JStr("Jensen")
                           @@ "givenName" :> JStr("Barbara")
                           @@ "middleName" :> JStr("Jane")
                           @@ "honorificPrefix" :> JStr("Ms.")
                           @@ "honorificSuffix" :> JStr("III"))
         @@ "displayName" :> JStr("Babs Jensen")
         @@ "nickName" :> JStr("Babs")
         @@ "profileUrl" :> JStr("https://login.example.com/bjensen")
         @@ "emails" :> JArr(<<JObj("value" :> JStr("bjensen@example.com")
                                    @@ "type" :> JStr("work") @@ "primary" :> JBool(TRUE)),
                               TypedValue("babs@jensen.org", "home")>>)
         @@ "addresses" :> JArr(<<JObj("primary" :> JBool(TRUE)
                                       @@ AddressDoc("work", "100 Universal City Plaza").obj),
                                  AddressDoc("home", "456 Hollywood Blvd")>>)
         @@ "phoneNumbers" :> JArr(<<TypedValue("555-555-5555", "work"),
                                     TypedValue("555-555-4444", "mobile")>>)
         @@ "ims" :> JArr(<<TypedValue("someaimhandle", "aim")>>)
         @@ "photos" :> JArr(<<TypedValue("https://photos.example.com/F", "photo"),
                               TypedValue("https://photos.example.com/T", "thumbnail")>>)
         @@ "userType" :> JStr("Employee")
         @@ "title" :> JStr("Tour Guide")
         @@ "preferredLanguage" :> JStr("en-US")
         @@ "locale" :> JStr("en-US")
         @@ "timezone" :> JStr("America/Los_Angeles")
         @@ "active" :> JBool(TRUE)
         @@ "password" :> JStr("t1meMa$heen")
         @@ "groups" :> JArr(<<GroupRef("e9e30dba", "Tour Guides"),
                               GroupRef("fc348aa8", "Employees"),
                               GroupRef("71ddacd2", "US Employees")>>)
         @@ "x509Certificates" :> JArr(<<JObj("value" :> JStr("MIIDQzCCAqygAwIBAgICEAAw"))>>)
         @@ "meta" :> MetaDoc)

EnterpriseDoc ==
    JObj("employeeNumber" :> JStr("701984") @@ "costCenter" :> JStr("4130")
         @@ "organization" :> JStr("Universal Studios") @@ "division" :> JStr("Theme Park")
         @@ "department" :> JStr("Tour Operations")
         @@ "manager" :> JObj("value" :> JStr("26118915")
                              @@ "$ref" :> JStr("../Users/26118915")
                              @@ "displayName" :> JStr("John Smith")))

\* user_deserialization_with_enterprise_user_extension
EnterpriseExtensionDoc ==
    JObj("schemas" :> JArr(<<JStr(CoreUserUrn), JStr(EnterpriseUrn)>>)
         @@ EnterpriseUrn :> EnterpriseDoc
         @@ AllFieldsDoc.obj)

TestDocs == {MinimumFieldsDoc, WithoutExtensionDoc, AllFieldsDoc, EnterpriseExtensionDoc}

\* a key of the User model set to null
NullOverlays == {key :> JNull : key \in FieldKeys(UserFields)}

\* keys the User model does not name
UnknownOverlays ==
    { "externalId" :> JStr("701984"),
      "x-vendor" :> JObj("level" :> JStr("gold")) @@ "etag" :> JNull,
      "enterpriseUser" :> EnterpriseDoc,
      "enterprise_user" :> EnterpriseDoc,
      "user_name" :> JStr("jdoe") @@ "display_name" :> JStr("J. Doe") }

\* keys of the User model set to a value of another content or shape
ValueOverlays ==
    { "schemas" :> JArr(<<>>),
      "schemas" :> JStr(CoreUserUrn),
      "userName" :> JStr(""),
      "userName" :> JStr("") @@ "schemas" :> JArr(<<>>),
      "name" :> JStr("Barbara"),
      "name" :> JObj(NoKeys),
      "emails" :> JArr(<<>>),
      "emails" :> TypedValue("bjensen@example.com", "work"),
      "active" :> JStr("true"),
      "groups" :> JArr(<<JObj("type" :> JStr("direct") @@ GroupRef("e9e30dba", "Tour Guides").obj),
                         JObj("type_" :> JStr("indirect") @@ "ref" :> JStr("x"))>>),
      "meta" :> JObj("resourceType" :> JStr("User")),
      EnterpriseUrn :> EnterpriseDoc,
      EnterpriseUrn :> JObj(NoKeys) }

\* a document with keys set, and with a key taken out
SetKeys(doc, overlay) == JObj(overlay @@ doc.obj)
RemoveKey(doc, key) == JObj([k \in DOMAIN doc.obj \ {key} |-> doc.obj[k]])

\* meta without one of its keys, with a value that is no string, and with
\* its keys in snake_case
MetaOverlays ==
    {"meta" :> RemoveKey(MetaDoc, key) : key \in Keys(MetaDoc)}
    \cup { "meta" :> SetKeys(MetaDoc, "version" :> JBool(TRUE)),
           "meta" :> SetKeys(RemoveKey(RemoveKey(MetaDoc, "resourceType"), "lastModified"),
                             "resource_type" :> JStr("User")
                             @@ "last_modified" :> JStr("2011-05-13T04:42:34Z")) }

Overlays == NullOverlays \cup UnknownOverlays \cup ValueOverlays \cup MetaOverlays

JsonInputs ==
    TestDocs \cup {JInvalid, JArr(<<>>), JStr("jdoe")}
    \cup {SetKeys(doc, overlay) : doc \in TestDocs, overlay \in Overlays}
    \cup {RemoveKey(doc, key) : doc \in TestDocs, key \in {"schemas", "userName", "id", "meta"}}

----------------------------------------------------------------------------
(* The state: what the caller of the library holds, and the last call.     *)

VARIABLES
    user,             \* Option<User>: the User value held
    json,             \* Option<String>: the JSON text held
    group,            \* Option<Group>
    resource_type,    \* Option<ResourceType>
    config,           \* Option<ServiceProviderConfig>
    enterprise_user,  \* Option<EnterpriseUser>
    last,             \* the last call: its entry point and its result (its argument
                      \* is still held: no call changes the value it is given)
    origin,           \* the User that `json` was written from by user_to_json
    source,           \* the JSON text that `user` was read from by json_to_user
    recording,        \* whether the calls made are kept in `trace`
    trace             \* the calls made so far, each with its argument and result

vars ==
    <<user, json, group, resource_type, config, enterprise_user, last, origin, source,
      recording, trace>>

Call(op, res) == [op |-> op, res |-> res]
NoCall == [op |-> "none"]

\* the call is appended to the trace when the calls are kept, which they are
\* for the first MaxCalls calls only
Recorded(op, arg, res) ==
    IF recording
    THEN /\ Len(trace) < MaxCalls
         /\ trace' = Append(trace, [op |-> op, arg |-> arg, res |-> res])
    ELSE trace' = trace

\* the caller starts with one value or one text, drawn from the given sets
InitWith(users, jsons, groups, resource_types, configs, enterprise_users) ==
    /\ last = NoCall
    /\ origin = None
    /\ source = None
    /\ trace = <<>>
    /\ \/ /\ user \in {Some(u) : u \in users}
          /\ json = None /\ group = None /\ resource_type = None
          /\ config = None /\ enterprise_user = None
       \/ /\ json \in {Some(j) : j \in jsons}
          /\ user = None /\ group = None /\ resource_type = None
          /\ config = None /\ enterprise_user = None
       \/ /\ group \in {Some(g) : g \in groups}
          /\ user = None /\ json = None /\ resource_type = None
          /\ config = None /\ enterprise_user = None
       \/ /\ resource_type \in {Some(r) : r \in resource_types}
          /\ user = None /\ json = None /\ group = None
          /\ config = None /\ enterprise_user = None
       \/ /\ config \in {Some(c) : c \in configs}
          /\ user = None /\ json = None /\ group = None
          /\ resource_type = None /\ enterprise_user = None
       \/ /\ enterprise_user \in {Some(e) : e \in enterprise_users}
          /\ user = None /\ json = None /\ group = None
          /\ resource_type = None /\ config = None

Init ==
    /\ recording = FALSE
    /\ InitWith(UserInputs, JsonInputs, GroupInputs, ResourceTypeInputs,
                ServiceProviderConfigInputs, EnterpriseUserInputs)

ValidateUser ==
    /\ IsSome(user)
    /\ LET res == validate_user(user[1])
       IN /\ last' = Call("validate_user", res)
          /\ Recorded("validate_user", user[1], res)
    /\ UNCHANGED <<user, json, group, resource_type, config, enterprise_user, origin, source, recording>>

\* user_to_json taking the password out of the User it is given
UserToJsonTaking ==
    /\ IsSome(user)
    /\ LET res == user_to_json(user[1])
       IN /\ last' = Call("user_to_json", res)
          /\ Recorded("user_to_json", user[1], res)
          /\ IF res.ok
             THEN json' = Some(res.v) /\ origin' = user
             ELSE UNCHANGED <<json, origin>>
    /\ user' = Some([user[1] EXCEPT !.password = None])
    /\ UNCHANGED <<group, resource_type, config, enterprise_user, source, recording>>

UserToJson ==
    /\ IsSome(user)
    /\ LET res == user_to_json(user[1])
       IN /\ last' = Call("user_to_json", res)
          /\ Recorded("user_to_json", user[1], res)
          /\ IF res.ok
             THEN json' = Some(res.v) /\ origin' = user
             ELSE UNCHANGED <<json, origin>>
    /\ UNCHANGED <<user, group, resource_type, config, enterprise_user, source, recording>>

JsonToUser ==
    /\ IsSome(json)
    /\ LET res == json_to_user(json[1])
       IN /\ last' = Call("json_to_user", res)
          /\ Recorded("json_to_user", json[1], res)
          /\ IF res.ok
             THEN user' = Some(res.v) /\ source' = json
             ELSE UNCHANGED <<user, source>>
    /\ UNCHANGED <<json, group, resource_type, config, enterprise_user, origin, recording>>

ValidateGroup ==
    /\ IsSome(group)
    /\ LET res == validate_group(group[1])
       IN /\ last' = Call("validate_group", res)
          /\ Recorded("validate_group", group[1], res)
    /\ UNCHANGED <<user, json, group, resource_type, config, enterprise_user, origin, source, recording>>

ValidateResourceType ==
    /\ IsSome(resource_type)
    /\ LET res == validate_resource_type(resource_type[1])
       IN /\ last' = Call("validate_resource_type", res)
          /\ Recorded("validate_resource_type", resource_type[1], res)
    /\ UNCHANGED <<user, json, group, resource_type, config, enterprise_user, origin, source, recording>>

ValidateServiceProviderConfig ==
    /\ IsSome(config)
    /\ LET res == validate_service_provider_config(config[1])
       IN /\ last' = Call("validate_service_provider_config", res)
          /\ Recorded("validate_service_provider_config", config[1], res)
    /\ UNCHANGED <<user, json, group, resource_type, config, enterprise_user, origin, source, recording>>

ValidateEnterpriseUser ==
    /\ IsSome(enterprise_user)
    /\ LET res == validate_enterprise_user(enterprise_user[1])
       IN /\ last' = Call("validate_enterprise_user", res)
          /\ Recorded("validate_enterprise_user", enterprise_user[1], res)
    /\ UNCHANGED <<user, json, group, resource_type, config, enterprise_user, origin, source, recording>>

Next ==
    \/ ValidateUser
    \/ UserToJson
    \/ JsonToUser
    \/ ValidateGroup
    \/ ValidateResourceType
    \/ ValidateServiceProviderConfig
    \/ ValidateEnterpriseUser

Spec == Init /\ [][Next]_vars

----------------------------------------------------------------------------
(* All fifteen entry points, from a few values and texts of each resource,  *)
(* the calls made being kept.                                              *)

GroupToJson ==
    /\ IsSome(group)
    /\ LET res == group_to_json(group[1])
       IN /\ last' = Call("group_to_json", res)
          /\ Recorded("group_to_json", group[1], res)
          /\ IF res.ok
             THEN json' = Some(res.v) /\ origin' = None
             ELSE UNCHANGED <<json, origin>>
    /\ UNCHANGED <<user, group, resource_type, config, enterprise_user, source, recording>>

JsonToGroup ==
    /\ IsSome(json)
    /\ LET res == json_to_group(json[1])
       IN /\ last' = Call("json_to_group", res)
          /\ Recorded("json_to_group", json[1], res)
          /\ IF res.ok
             THEN group' = Some(res.v)
             ELSE UNCHANGED group
    /\ UNCHANGED <<user, json, resource_type, config, enterprise_user, origin, source, recording>>

ResourceTypeToJson ==
    /\ IsSome(resource_type)
    /\ LET res == resource_type_to_json(resource_type[1])
       IN /\ last' = Call("resource_type_to_json", res)
          /\ Recorded("resource_type_to_json", resource_type[1], res)
          /\ IF res.ok
             THEN json' = Some(res.v) /\ origin' = None
             ELSE UNCHANGED <<json, origin>>
    /\ UNCHANGED <<user, group, resource_type, config, enterprise_user, source, recording>>

JsonToResourceType ==
    /\ IsSome(json)
    /\ LET res == json_to_resource_type(json[1])
       IN /\ last' = Call("json_to_resource_type", res)
          /\ Recorded("json_to_resource_type", json[1], res)
          /\ IF res.ok
             THEN resource_type' = Some(res.v)
             ELSE UNCHANGED resource_type
    /\ UNCHANGED <<user, json, group, config, enterprise_user, origin, source, recording>>

ServiceProviderConfigToJson ==
    /\ IsSome(config)
    /\ LET res == service_provider_config_to_json(config[1])
       IN /\ last' = Call("service_provider_config_to_json", res)
          /\ Recorded("service_provider_config_to_json", config[1], res)
          /\ IF res.ok
             THEN json' = Some(res.v) /\ origin' = None
             ELSE UNCHANGED <<json, origin>>
    /\ UNCHANGED <<user, group, resource_type, config, enterprise_user, source, recording>>

JsonToServiceProviderConfig ==
    /\ IsSome(json)
    /\ LET res == json_to_service_provider_config(json[1])
       IN /\ last' = Call("json_to_service_provider_config", res)
          /\ Recorded("json_to_service_provider_config", json[1], res)
          /\ IF res.ok
             THEN config' = Some(res.v)
             ELSE UNCHANGED config
    /\ UNCHANGED <<user, json, group, resource_type, enterprise_user, origin, source, recording>>

EnterpriseUserToJson ==
    /\ IsSome(enterprise_user)
    /\ LET res == enterprise_user_to_json(enterprise_user[1])
       IN /\ last' = Call("enterprise_user_to_json", res)
          /\ Recorded("enterprise_user_to_json", enterprise_user[1], res)
          /\ IF res.ok
             THEN json' = Some(res.v) /\ origin' = None
             ELSE UNCHANGED <<json, origin>>
    /\ UNCHANGED <<user, group, resource_type, config, enterprise_user, source, recording>>

JsonToEnterpriseUser ==
    /\ IsSome(json)
    /\ LET res == json_to_enterprise_user(json[1])
       IN /\ last' = Call("json_to_enterprise_user", res)
          /\ Recorded("json_to_enterprise_user", json[1], res)
          /\ IF res.ok
             THEN enterprise_user' = Some(res.v)
             ELSE UNCHANGED enterprise_user
    /\ UNCHANGED <<user, json, group, resource_type, config, origin, source, recording>>

\* json_to_group doc example
GroupDoc ==
    JObj("schemas" :> JArr(<<JStr(GroupUrn)>>)
         @@ "id" :> JStr("e9e30dba-f08f-4109-8486-d5c6a331660a")
         @@ "displayName" :> JStr("Tour Guides"))

\* json_to_resource_type doc example
ResourceTypeDoc ==
    JObj("name" :> JStr("User") @@ "endpoint" :> JStr("/Users")
         @@ "schema" :> JStr(CoreUserUrn))

SomeUsers ==
    Templates \cup { [DefaultUser EXCEPT !.schemas = <<>>],
                     [FullUser EXCEPT !.user_name = ""],
                     [DefaultUser EXCEPT !.emails = Some(<<HandleEntry>>)] }

SomeJsons ==
    TestDocs \cup { JInvalid, JArr(<<>>), GroupDoc, ResourceTypeDoc, EnterpriseDoc,
                    SetKeys(GroupDoc, "members" :> JStr("2819c223")),
                    SetKeys(ResourceTypeDoc, "schemaExtensions" :> JArr(<<JObj(NoKeys)>>)),
                    SetKeys(EnterpriseDoc, "manager" :> JStr("26118915")),
                    SetKeys(MinimumFieldsDoc, "userName" :> JStr("")),
                    RemoveKey(MinimumFieldsDoc, "schemas") }

InitAll ==
    /\ recording = TRUE
    /\ InitWith(SomeUsers, SomeJsons, GroupInputs, ResourceTypeInputs,
                ServiceProviderConfigInputs, EnterpriseUserInputs)

NextAll ==
    \/ ValidateUser
    \/ UserToJson
    \/ JsonToUser
    \/ ValidateGroup
    \/ GroupToJson
    \/ JsonToGroup
    \/ ValidateResourceType
    \/ ResourceTypeToJson
    \/ JsonToResourceType
    \/ ValidateServiceProviderConfig
    \/ ServiceProviderConfigToJson
    \/ JsonToServiceProviderConfig
    \/ ValidateEnterpriseUser
    \/ EnterpriseUserToJson
    \/ JsonToEnterpriseUser

SpecAll == InitAll /\ [][NextAll]_vars

----------------------------------------------------------------------------
(* Properties.                                                             *)

IsOk(res) == res.ok
IsErr(res, e) == ~res.ok /\ res.err = e

\* the optional attributes of User, as fields
OptionalFields == {UserFields[i] : i \in {n \in 1..Len(UserFields) : UserFields[n].ty.k = "opt"}}

\* the document less the top-level keys the User model does not name
KnownPart(doc) == JObj([k \in DOMAIN doc.obj \cap FieldKeys(UserFields) |-> doc.obj[k]])
UnknownKeys(doc) == Keys(doc) \ FieldKeys(UserFields)

\* C1: Round trip. Reading with json_to_user the text user_to_json wrote for a
\* User succeeds and gives back that User, attribute by attribute, every list
\* in the same order.
C1_RoundTrip ==
    (last.op = "json_to_user" /\ IsSome(origin))
        => /\ json = Some(user_to_json(origin[1]).v)
           /\ IsOk(last.res)
           /\ last.res.v = origin[1]
           /\ user = origin

\* a User with absent and present attributes and a two-element list has made
\* the round trip
C1_Witness ==
    /\ last.op = "json_to_user"
    /\ IsSome(origin)
    /\ IsNone(origin[1].id)
    /\ origin[1].emails = Some(<<HomeEntry, WorkEntry>>)
    /\ IsOk(last.res)

\* C2: Absent-omit. The text user_to_json writes holds no key for an optional
\* attribute that is None in the value.
C2_AbsentOmit ==
    last.op = "user_to_json"
        => \A f \in OptionalFields :
              IsNone(user[1][f.name]) => f.key \notin Keys(last.res.v)

\* C3: Null-tolerance on decode. A document with "a": null for an optional
\* attribute a (and that is read successfully without that key) is read
\* successfully with a absent, and writing the value read gives a text without
\* the key a.
C3_NullTolerance ==
    /\ (last.op = "json_to_user" /\ IsObj(json[1]))
          => \A f \in OptionalFields :
                (/\ f.key \in Keys(json[1])
                 /\ json[1].obj[f.key] = JNull
                 /\ IsOk(json_to_user(RemoveKey(json[1], f.key))))
                    => IsOk(last.res) /\ IsNone(last.res.v[f.name])
    /\ (last.op = "user_to_json" /\ IsSome(source))
          => \A f \in OptionalFields :
                (f.key \in Keys(source[1]) /\ source[1].obj[f.key] = JNull)
                    => f.key \notin Keys(json[1])

\* the first half of C3 alone: "a": null is read as a absent
C3_NullReadsAsAbsent ==
    (last.op = "json_to_user" /\ IsObj(json[1]))
        => \A f \in OptionalFields :
              (/\ f.key \in Keys(json[1])
               /\ json[1].obj[f.key] = JNull
               /\ IsOk(json_to_user(RemoveKey(json[1], f.key))))
                  => IsOk(last.res) /\ IsNone(last.res.v[f.name])

\* C4: Literal-key fidelity. In the text user_to_json writes, a group entry
\* holds its reference under "$ref" and its type under "type", never under
\* "ref", "ref_" or "type_"; and a group entry read with a "type" key has
\* that type.
C4_LiteralKeys ==
    /\ (last.op = "user_to_json" /\ IsSome(user[1].groups))
          => \A i \in 1..Len(user[1].groups[1]) :
                LET g == user[1].groups[1][i]
                    entry == json[1].obj["groups"].arr[i]
                IN /\ IsSome(g.ref_) => ("$ref" \in Keys(entry) /\ entry.obj["$ref"] = JStr(g.ref_[1]))
                   /\ IsSome(g.type_) => ("type" \in Keys(entry) /\ entry.obj["type"] = JStr(g.type_[1]))
                   /\ IsSome(g.type_) => Keys(entry) \cap {"ref", "ref_", "type_"} = {}
    /\ (last.op = "json_to_user" /\ IsOk(last.res) /\ IsSome(last.res.v.groups)
        /\ IsObj(json[1]))
          => \A i \in 1..Len(last.res.v.groups[1]) :
                LET entry == json[1].obj["groups"].arr[i]
                IN ("type" \in Keys(entry) /\ IsStr(entry.obj["type"]))
                      => last.res.v.groups[1][i].type_ = Some(entry.obj["type"].str)

\* the part of C4 that holds: the reference of a group entry is written under
\* "$ref", and "ref" and "ref_" are never keys of a group entry
C4_RefKey ==
    (last.op = "user_to_json" /\ IsSome(user[1].groups))
        => \A i \in 1..Len(user[1].groups[1]) :
              LET g == user[1].groups[1][i]
                  entry == json[1].obj["groups"].arr[i]
              IN /\ IsSome(g.ref_) => ("$ref" \in Keys(entry) /\ entry.obj["$ref"] = JStr(g.ref_[1]))
                 /\ Keys(entry) \cap {"ref", "ref_"} = {}

FirstMissing(names, missing(_)) ==
    LET bad == {i \in 1..Len(names) : missing(names[i])}
    IN IF bad = {} THEN None
       ELSE Some(names[CHOOSE i \in bad : \A j \in bad : i <= j])

Expected(first) == IF IsNone(first) THEN Ok("unit") ELSE Err(MissingRequiredField(first[1]))

Agrees(res, expected) ==
    IF expected.ok THEN IsOk(res) ELSE IsErr(res, expected.err)

\* C6: validate_group reports the first empty one of schemas, id and
\* displayName ("schemas", "id", "display_name"), and Ok when none is empty.
C6_ValidateGroup ==
    last.op = "validate_group"
        => LET g == group[1]
               missing(n) == IF n = "schemas" THEN Len(g.schemas) = 0 ELSE g[n] = ""
           IN Agrees(last.res, Expected(FirstMissing(<<"schemas", "id", "display_name">>, missing)))

\* schemas and id are given, displayName is "": "display_name" is reported
C6_Witness ==
    /\ last.op = "validate_group"
    /\ group[1].schemas = <<GroupUrn>>
    /\ group[1].id # ""
    /\ group[1].display_name = ""
    /\ IsErr(last.res, MissingRequiredField("display_name"))

\* C7: validate_resource_type reports the first empty one of name, endpoint
\* and schema, and Ok when none is empty.
C7_ValidateResourceType ==
    last.op = "validate_resource_type"
        => LET missing(n) == resource_type[1][n] = ""
           IN Agrees(last.res, Expected(FirstMissing(<<"name", "endpoint", "schema">>, missing)))

\* name "User", endpoint "/Users", schema "": "schema" is reported
C7_Witness ==
    /\ last.op = "validate_resource_type"
    /\ resource_type[1].name = "User"
    /\ resource_type[1].endpoint = "/Users"
    /\ resource_type[1].schema = ""
    /\ IsErr(last.res, MissingRequiredField("schema"))

\* C8: validate_service_provider_config reports the first sub-record, in the
\* order patch, bulk, filter, changePassword (named "change_password"), sort,
\* etag, whose supported is false, whatever the later ones hold, and Ok when
\* all six are supported.
C8_ValidateServiceProviderConfig ==
    last.op = "validate_service_provider_config"
        => LET missing(n) == ~config[1][n].supported
           IN Agrees(last.res,
                     Expected(FirstMissing(<<"patch", "bulk", "filter", "change_password",
                                             "sort", "etag">>, missing)))

\* filter and etag are unsupported, the others supported: "filter" is reported
C8_Witness ==
    /\ last.op = "validate_service_provider_config"
    /\ config[1].patch.supported /\ config[1].bulk.supported
    /\ ~config[1].filter.supported /\ ~config[1].etag.supported
    /\ config[1].change_password.supported /\ config[1].sort.supported
    /\ IsErr(last.res, MissingRequiredField("filter"))

\* C9: validate_enterprise_user reports the first absent one of
\* employeeNumber, costCenter, organization, division, department and manager,
\* and Ok when all six are present.
C9_ValidateEnterpriseUser ==
    last.op = "validate_enterprise_user"
        => LET missing(n) == IsNone(enterprise_user[1][n])
           IN Agrees(last.res,
                     Expected(FirstMissing(<<"employee_number", "cost_center", "organization",
                                             "division", "department", "manager">>, missing)))

\* all six are present, employeeNumber as the empty string: Ok
C9_Witness ==
    /\ last.op = "validate_enterprise_user"
    /\ enterprise_user[1].employee_number = Some("")
    /\ \A n \in DOMAIN enterprise_user[1] : IsSome(enterprise_user[1][n])
    /\ IsOk(last.res)

\* C10: Unknown-key tolerance. A document that is read successfully without
\* its top-level keys the model does not name is read successfully with them,
\* to the same value; and the text written from the value read holds none of
\* those keys.
C10_UnknownKeys ==
    /\ (last.op = "json_to_user" /\ IsObj(json[1]) /\ UnknownKeys(json[1]) # {})
          => LET plain == json_to_user(KnownPart(json[1]))
             IN IsOk(plain) => (IsOk(last.res) /\ last.res.v = plain.v)
    /\ (last.op = "user_to_json" /\ IsSome(source))
          => Keys(json[1]) \cap UnknownKeys(source[1]) = {}

\* a document with two unknown top-level keys has been read and written again
C10_Witness ==
    /\ last.op = "user_to_json"
    /\ IsSome(source)
    /\ {"x-vendor", "etag"} \subseteq UnknownKeys(source[1])
    /\ IsOk(json_to_user(KnownPart(source[1])))
    /\ user = Some(json_to_user(KnownPart(source[1])).v)

\* the top-level key of the enterprise extension, as the specification spells it
ExtensionKey == "urn:ietf:params:scim:schemas:extension:enterprise:2.0:User"

\* the string attributes of the extension, by JSON key and by Rust name
ExtensionStrings ==
    { <<"employeeNumber", "employee_number">>, <<"costCenter", "cost_center">>,
      <<"organization", "organization">>, <<"division", "division">>,
      <<"department", "department">> }
ManagerStrings == { <<"value", "value">>, <<"displayName", "display_name">> }

\* every present attribute of `rec` named in `pairs` is written in `j` as its string
WrittenAsGiven(pairs, rec, j) ==
    /\ IsObj(j)
    /\ \A p \in pairs :
          IsSome(rec[p[2]]) => (p[1] \in Keys(j) /\ j.obj[p[1]] = JStr(rec[p[2]][1]))

\* every string that `j` gives under a key named in `pairs` is read into `rec`
ReadAsGiven(pairs, j, rec) ==
    \A p \in pairs :
        (p[1] \in Keys(j) /\ IsStr(j.obj[p[1]])) => rec[p[2]] = Some(j.obj[p[1]].str)

\* C11: Extension slot. user_to_json writes a present EnterpriseUser under the
\* top-level key that is the enterprise URN, and never writes a key
\* enterpriseUser or enterprise_user. json_to_user reads a document that has
\* an object under the URN key into a User whose extension is present with the
\* five strings and the manager's value and displayName as given (and the
\* document is read successfully when the rest of it is); a document without
\* the URN key is read into a User without the extension, whether or not it
\* has a key enterpriseUser or enterprise_user.
C11_ExtensionSlot ==
    /\ last.op = "user_to_json"
          => /\ Keys(json[1]) \cap {"enterpriseUser", "enterprise_user"} = {}
             /\ IsSome(user[1].enterprise_user)
                   => /\ ExtensionKey \in Keys(json[1])
                      /\ LET e == user[1].enterprise_user[1]
                             ext == json[1].obj[ExtensionKey]
                         IN /\ WrittenAsGiven(ExtensionStrings, e, ext)
                            /\ IsSome(e.manager)
                                  => /\ "manager" \in Keys(ext)
                                     /\ WrittenAsGiven(ManagerStrings, e.manager[1],
                                                       ext.obj["manager"])
    /\ (last.op = "json_to_user" /\ IsObj(json[1]) /\ ExtensionKey \in Keys(json[1])
        /\ IsObj(json[1].obj[ExtensionKey]))
          => LET ext == json[1].obj[ExtensionKey]
             IN /\ (ext = EnterpriseDoc /\ IsOk(json_to_user(RemoveKey(json[1], ExtensionKey))))
                      => IsOk(last.res)
                /\ IsOk(last.res)
                      => /\ IsSome(last.res.v.enterprise_user)
                         /\ LET e == last.res.v.enterprise_user[1]
                            IN /\ ReadAsGiven(ExtensionStrings, ext, e)
                               /\ ("manager" \in Keys(ext) /\ IsObj(ext.obj["manager"]))
                                     => /\ IsSome(e.manager)
                                        /\ ReadAsGiven(ManagerStrings, ext.obj["manager"],
                                                       e.manager[1])
    /\ (last.op = "json_to_user" /\ IsObj(json[1]) /\ ExtensionKey \notin Keys(json[1])
        /\ IsOk(last.res))
          => IsNone(last.res.v.enterprise_user)

\* the document of the extension test has been read: the extension is present
\* with its five strings and its manager
C11_Witness ==
    /\ last.op = "json_to_user"
    /\ json = Some(EnterpriseExtensionDoc)
    /\ IsOk(last.res)
    /\ last.res.v.enterprise_user = Some(FullEnterpriseUser)

\* the document has `key`, with the value null
HasNull(doc, key) == key \in Keys(doc) /\ IsNull(doc.obj[key])

\* C12: Decode failure. json_to_user returns DeserializationError, a result
\* that holds no User, when the text is not JSON, when the document has no
\* schemas or no userName, when either is null, when name is a string and when
\* emails is an object.
C12_DecodeFailure ==
    (/\ last.op = "json_to_user"
     /\ \/ json[1] = JInvalid
        \/ /\ IsObj(json[1])
           /\ \/ "schemas" \notin Keys(json[1])
              \/ "userName" \notin Keys(json[1])
              \/ HasNull(json[1], "schemas")
              \/ HasNull(json[1], "userName")
              \/ ("name" \in Keys(json[1]) /\ IsStr(json[1].obj["name"]))
              \/ ("emails" \in Keys(json[1]) /\ IsObj(json[1].obj["emails"])))
        => /\ IsErr(last.res, DeserializationError)
           /\ "v" \notin DOMAIN last.res

\* the document of the minimum-fields test without its userName has been
\* handed to json_to_user
C12_Witness ==
    /\ last.op = "json_to_user"
    /\ json = Some(RemoveKey(MinimumFieldsDoc, "userName"))
    /\ IsErr(last.res, DeserializationError)

\* the document gives externalId as a string
GivesExternalId(doc) ==
    IsObj(doc) /\ "externalId" \in Keys(doc) /\ IsStr(doc.obj["externalId"])

\* C13: externalId. The User read from a document that gives externalId as a
\* string has externalId present with that string, and the text written from
\* that User holds the key externalId with the same string.
C13_ExternalId ==
    /\ (last.op = "json_to_user" /\ GivesExternalId(json[1]) /\ IsOk(last.res))
          => /\ "external_id" \in DOMAIN last.res.v
             /\ last.res.v["external_id"] = Some(json[1].obj["externalId"].str)
    /\ (last.op = "user_to_json" /\ IsSome(source) /\ GivesExternalId(source[1]))
          => /\ "externalId" \in Keys(json[1])
             /\ json[1].obj["externalId"] = source[1].obj["externalId"]

\* the strings that are in the format of an email address, among those drawn
WellFormedEmails == {"bjensen@example.com", "babs@jensen.org"}

\* some entry of emails has a value that is not in the format of an address
HasInvalidEmail(u) ==
    /\ IsSome(u.emails)
    /\ \E i \in 1..Len(u.emails[1]) :
          /\ IsSome(u.emails[1][i].value)
          /\ u.emails[1][i].value[1] \notin WellFormedEmails

\* the variant of the error a call returned
ErrorVariant(res) == res.err[1]

\* C14: validate_user, as its documentation comment has it: an error
\* (MissingRequiredField) when the user has no name or no user_name,
\* and InvalidFieldValue when an entry of emails is not in the format of an
\* email address.
C14_ValidateUserDoc ==
    last.op = "validate_user"
        => LET u == user[1]
           IN /\ (IsNone(u.name) \/ u.user_name = "")
                    => (~IsOk(last.res) /\ ErrorVariant(last.res) = "MissingRequiredField")
              /\ (IsSome(u.name) /\ u.user_name # "" /\ Len(u.schemas) > 0
                  /\ HasInvalidEmail(u))
                    => (~IsOk(last.res) /\ ErrorVariant(last.res) = "InvalidFieldValue")

\* the entry points, by what they do
ValidateOps ==
    { "validate_user", "validate_group", "validate_resource_type",
      "validate_service_provider_config", "validate_enterprise_user" }
ToJsonOps ==
    { "user_to_json", "group_to_json", "resource_type_to_json",
      "service_provider_config_to_json", "enterprise_user_to_json" }
FromJsonOps ==
    { "json_to_user", "json_to_group", "json_to_resource_type",
      "json_to_service_provider_config", "json_to_enterprise_user" }

SpecOptionalKeys == OptionalKeys \cup {"externalId"}

\* the User value has the optional attribute of that key, and it is present
PresentIn(u, key) == \E f \in OptionalFields : f.key = key /\ IsSome(u[f.name])

\* the document gives the key with a value other than null
GivenIn(doc, key) == key \in Keys(doc) /\ ~IsNull(doc.obj[key])

\* C17: Presence exactness on decode. In the User read from a document, an
\* optional attribute is present exactly when the document gives its key with
\* a value other than null; the documents of the tests that hold only schemas,
\* userName, id and meta are read successfully; and emails given as [] is
\* read as a present, empty list.
C17_PresenceExactness ==
    /\ (last.op = "json_to_user" /\ IsObj(json[1]) /\ IsOk(last.res))
          => \A key \in SpecOptionalKeys :
                PresentIn(last.res.v, key) <=> GivenIn(json[1], key)
    /\ (last.op = "json_to_user" /\ json[1] \in {MinimumFieldsDoc, WithoutExtensionDoc})
          => IsOk(last.res)
    /\ (last.op = "json_to_user" /\ IsObj(json[1]) /\ IsOk(last.res)
        /\ "emails" \in Keys(json[1]) /\ json[1].obj["emails"] = JArr(<<>>))
          => last.res.v.emails = Some(<<>>)

\* C17 for the attributes the struct has (all but externalId)
C17_PresenceOfFields ==
    /\ (last.op = "json_to_user" /\ IsObj(json[1]) /\ IsOk(last.res))
          => \A key \in OptionalKeys :
                PresentIn(last.res.v, key) <=> GivenIn(json[1], key)
    /\ (last.op = "json_to_user" /\ json[1] \in {MinimumFieldsDoc, WithoutExtensionDoc})
          => IsOk(last.res)
    /\ (last.op = "json_to_user" /\ IsObj(json[1]) /\ IsOk(last.res)
        /\ "emails" \in Keys(json[1]) /\ json[1].obj["emails"] = JArr(<<>>))
          => last.res.v.emails = Some(<<>>)

\* the keys of a meta object
MetaKeys == {"resourceType", "created", "lastModified", "version", "location"}

\* the meta object gives all five keys, each with a string
CompleteMeta(m) == \A key \in MetaKeys : key \in Keys(m) /\ IsStr(m.obj[key])

\* C18: Meta is all-or-nothing on read. A document without meta is read into
\* a User without meta. A document whose meta is an object is read
\* successfully only if the object gives resourceType, created, lastModified,
\* version and location as strings, else json_to_user returns
\* DeserializationError; and with all five given (and the rest of the
\* document readable) it is read successfully, meta holding the five strings.
C18_MetaAllOrNothing ==
    (last.op = "json_to_user" /\ IsObj(json[1]))
        => /\ ("meta" \notin Keys(json[1]) /\ IsOk(last.res)) => IsNone(last.res.v.meta)
           /\ ("meta" \in Keys(json[1]) /\ IsObj(json[1].obj["meta"]))
                 => LET m == json[1].obj["meta"]
                    IN /\ IsOk(last.res) => CompleteMeta(m)
                       /\ ~CompleteMeta(m) => IsErr(last.res, DeserializationError)
                       /\ (CompleteMeta(m) /\ IsOk(json_to_user(RemoveKey(json[1], "meta"))))
                             => /\ IsOk(last.res)
                                /\ IsSome(last.res.v.meta)
                                /\ LET v == last.res.v.meta[1]
                                   IN /\ v.resource_type = m.obj["resourceType"].str
                                      /\ v.created = m.obj["created"].str
                                      /\ v.last_modified = m.obj["lastModified"].str
                                      /\ v.version = m.obj["version"].str
                                      /\ v.location = m.obj["location"].str

\* the document of the minimum-fields test with version taken out of its meta
\* has been handed to json_to_user
C18_Witness ==
    /\ last.op = "json_to_user"
    /\ json = Some(SetKeys(MinimumFieldsDoc, "meta" :> RemoveKey(MetaDoc, "version")))
    /\ IsErr(last.res, DeserializationError)

\* the held value that the entry point is given, picked from the held values
Given(op, u, j, g, r, c, e) ==
    IF op \in FromJsonOps THEN j
    ELSE IF op \in {"validate_user", "user_to_json"} THEN u
    ELSE IF op \in {"validate_group", "group_to_json"} THEN g
    ELSE IF op \in {"validate_resource_type", "resource_type_to_json"} THEN r
    ELSE IF op \in {"validate_service_provider_config",
                    "service_provider_config_to_json"} THEN c
    ELSE e

\* the step makes a call that leaves the value it is given as it was, and
\* every earlier call of the same entry point with the same value or text
\* returned what this one returns
PureCall ==
    Len(trace') = Len(trace) + 1
        => LET call == trace'[Len(trace) + 1]
           IN /\ Given(call.op, user, json, group, resource_type, config, enterprise_user)
                    = Some(call.arg)
              /\ Given(call.op, user', json', group', resource_type', config', enterprise_user')
                    = Some(call.arg)
              /\ \A i \in 1..Len(trace) :
                    (trace[i].op = call.op /\ trace[i].arg = call.arg)
                        => trace[i].res = call.res

ReadFromSource ==
    /\ IsSome(source) /\ IsObj(source[1]) /\ IsSome(user)
    /\ json_to_user(source[1]) = Ok(user[1])

\* the JSON key of the member that a MissingRequiredField of validate_user
\* names
RequiredKey(name) == IF name = "user_name" THEN "userName" ELSE name

\* C20: decoding does not enforce non-emptiness. A document with
\* "schemas": [] or "userName": "" (that is read successfully with a value put
\* there) is read successfully by json_to_user, the empty value kept; it is
\* validate_user on the User read that returns MissingRequiredField("schemas")
\* or MissingRequiredField("user_name"). A document without the schemas or
\* the userName key is rejected by json_to_user with DeserializationError, so
\* validate_user never returns MissingRequiredField on a User read from a
\* document for a key that the document does not give.
C20_DecodingKeepsEmpty ==
    /\ (last.op = "json_to_user" /\ IsObj(json[1]))
          => LET doc == json[1]
             IN /\ ( /\ "schemas" \in Keys(doc) /\ doc.obj["schemas"] = JArr(<<>>)
                     /\ IsOk(json_to_user(SetKeys(doc, "schemas" :> JArr(<<JStr(CoreUserUrn)>>)))) )
                      => IsOk(last.res) /\ last.res.v.schemas = <<>>
                /\ ( /\ "userName" \in Keys(doc) /\ doc.obj["userName"] = JStr("")
                     /\ IsOk(json_to_user(SetKeys(doc, "userName" :> JStr("bjensen")))) )
                      => IsOk(last.res) /\ last.res.v.user_name = ""
                /\ ("schemas" \notin Keys(doc) \/ "userName" \notin Keys(doc))
                      => IsErr(last.res, DeserializationError)
    /\ (last.op = "validate_user" /\ ReadFromSource)
          => LET doc == source[1]
             IN /\ doc.obj["schemas"] = JArr(<<>>)
                      => IsErr(last.res, MissingRequiredField("schemas"))
                /\ (doc.obj["schemas"] # JArr(<<>>) /\ doc.obj["userName"] = JStr(""))
                      => IsErr(last.res, MissingRequiredField("user_name"))
                /\ (~IsOk(last.res))
                      => /\ ErrorVariant(last.res) = "MissingRequiredField"
                         /\ RequiredKey(last.res.err[2]) \in Keys(doc)

\* the document of the minimum-fields test with "schemas": [] has been read
\* and validate_user has then been called on the User read
C20_Witness ==
    /\ last.op = "validate_user"
    /\ ReadFromSource
    /\ source = Some(SetKeys(MinimumFieldsDoc, "schemas" :> JArr(<<>>)))
    /\ IsErr(last.res, MissingRequiredField("schemas"))

\* User::default() holding of the User only whether its schemas and its
\* userName are empty
TwoFacts(u) ==
    [DefaultUser EXCEPT !.schemas = IF Len(u.schemas) = 0 THEN <<>> ELSE <<CoreUserUrn>>,
                        !.user_name = IF u.user_name = "" THEN "" ELSE "bjensen@example.com"]

ReportsMissing(res) == ~IsOk(res) /\ ErrorVariant(res) = "MissingRequiredField"

\* C22: the validators differ in what they take for missing.
\* validate_enterprise_user asks for presence only: it returns Ok exactly when
\* all six attributes are present, so also when the five strings are "" and
\* the manager has no attribute set. validate_user, validate_group and
\* validate_resource_type take a required string equal to "" for missing and
\* return MissingRequiredField.
C22_TwoNotionsOfMissing ==
    /\ last.op = "validate_enterprise_user"
          => LET e == enterprise_user[1]
             IN /\ IsOk(last.res) <=> \A n \in DOMAIN e : IsSome(e[n])
                /\ e = BlankEnterpriseUser => IsOk(last.res)
    /\ (last.op = "validate_user" /\ user[1].user_name = "")
          => ReportsMissing(last.res)
    /\ (last.op = "validate_group" /\ (group[1].id = "" \/ group[1].display_name = ""))
          => ReportsMissing(last.res)
    /\ ( /\ last.op = "validate_resource_type"
         /\ \/ resource_type[1].name = ""
            \/ resource_type[1].endpoint = ""
            \/ resource_type[1].schema = "" )
          => ReportsMissing(last.res)

\* the EnterpriseUser with five empty strings and a manager with no attribute
\* set has been validated: Ok
C22_Witness ==
    /\ last.op = "validate_enterprise_user"
    /\ enterprise_user = Some(BlankEnterpriseUser)
    /\ IsOk(last.res)

====
